---- MODULE Spec2Model ----
(***************************************************************************)
(* Model of go-i2p/i2pkeys-converter (src/main.go): the I2P Base64 codec,  *)
(* the format classifier, the two-line validator, ConvertKeyFile,          *)
(* FormatKeysFile and the command-line driver.                             *)
(*                                                                         *)
(* A Go string / []byte is a sequence of bytes, each an integer 0..255.    *)
(***************************************************************************)
EXTENDS Integers, Sequences, FiniteSets, TLC

(***************************************************************************)
(* Program constants                                                       *)
(***************************************************************************)

\* The public key (destination) is the first 516 characters of the key.
PubLen == 516

\* The padding character '=' of base64.StdPadding.
PadChar == 61

\* '\n', the separator of strings.Split(…, "\n").
NL == 10

(***************************************************************************)
(* The I2P Base64 codec (encoding/base64 with the I2P alphabet)            *)
(***************************************************************************)

\* Mutant of EncodeChar: the standard alphabet, '+' and '/' for 62 and 63.
EncodeCharStd(i) ==
    IF i < 26 THEN 65 + i
    ELSE IF i < 52 THEN 97 + (i - 26)
    ELSE IF i < 62 THEN 48 + (i - 52)
    ELSE IF i = 62 THEN 43
    ELSE 47

\* i2pB64Encoding's alphabet: the character at ordinal i (0..63).
\* "ABCDEFGHIJKLMNOPQRSTUVWXYZabcdefghijklmnopqrstuvwxyz0123456789-~"
EncodeChar(i) ==
    IF i < 26 THEN 65 + i
    ELSE IF i < 52 THEN 97 + (i - 26)
    ELSE IF i < 62 THEN 48 + (i - 52)
    ELSE IF i = 62 THEN 45
    ELSE 126

\* The decode map NewEncoding builds from the alphabet: the ordinal of a
\* character, or -1 for a byte outside the alphabet.
DecodeMap(c) ==
    IF c >= 65 /\ c <= 90 THEN c - 65
    ELSE IF c >= 97 /\ c <= 122 THEN c - 97 + 26
    ELSE IF c >= 48 /\ c <= 57 THEN c - 48 + 52
    ELSE IF c = 45 THEN 62
    ELSE IF c = 126 THEN 63
    ELSE -1

\* toI2PBase64: Encoding.EncodeToString.  Three bytes b0 b1 b2 make the
\* four characters of ordinals b0>>2, (b0&3)<<4 | b1>>4, (b1&15)<<2 | b2>>6
\* and b2&63; a final group of one or two bytes is filled with zero bits
\* and padded with '='.
toI2PBase64(data) ==
    LET n == Len(data)
    IN  [j \in 1..(4 * ((n + 2) \div 3)) |->
            LET i == 3 * ((j - 1) \div 4) + 1    \* the first byte of j's group
                k == (j - 1) % 4
            IN  IF k = 0 THEN EncodeChar(data[i] \div 4)
                ELSE IF k = 1
                THEN EncodeChar((data[i] % 4) * 16
                                  + (IF i + 1 <= n THEN data[i + 1] \div 16 ELSE 0))
                ELSE IF k = 2
                THEN IF i + 1 > n THEN PadChar
                     ELSE EncodeChar((data[i + 1] % 16) * 4
                                       + (IF i + 2 <= n THEN data[i + 2] \div 64 ELSE 0))
                ELSE IF i + 2 > n THEN PadChar
                     ELSE EncodeChar(data[i + 2] % 64)]

\* Encoding.Decode skips '\r' and '\n' wherever they occur.
NotCRLF(c) == c # 13 /\ c # NL

\* The quantum (group of four characters) number q (from 0) of text t:
\* "full" when it is four alphabet characters, "pad1"/"pad2" when it is
\* correctly padded and decodes to one or two bytes, "bad" otherwise
\* (a character outside the alphabet, misplaced padding, or a short group).
QuantumKind(t, q) ==
    LET b  == 4 * q
        In(i) == b + i <= Len(t) /\ DecodeMap(t[b + i]) >= 0
        Pad(i) == b + i <= Len(t) /\ t[b + i] = PadChar
    IN  IF In(1) /\ In(2) /\ In(3) /\ In(4) THEN "full"
        ELSE IF In(1) /\ In(2) /\ In(3) /\ Pad(4) THEN "pad2"
        ELSE IF In(1) /\ In(2) /\ Pad(3) /\ Pad(4) THEN "pad1"
        ELSE "bad"

\* The quanta of t that are not full, in order.
NotFull(t, nq) ==
    SelectSeq([q \in 1..nq |-> q - 1], LAMBDA q : QuantumKind(t, q) # "full")

\* fromI2PBase64: Encoding.DecodeString.  ok is (err == nil); bytes is the
\* slice returned, which on an error holds what was decoded before it.
fromI2PBase64(i2pBase64) ==
    LET t    == SelectSeq(i2pBase64, NotCRLF)
        nq   == (Len(t) + 3) \div 4
        stop == NotFull(t, nq)
        f    == IF stop = <<>> THEN nq ELSE stop[1]    \* where decoding stops
        kind == IF f < nq THEN QuantumKind(t, f) ELSE "full"
        tail == IF kind = "pad1" THEN 1 ELSE IF kind = "pad2" THEN 2 ELSE 0
        Ord(i) == IF DecodeMap(t[i]) >= 0 THEN DecodeMap(t[i]) ELSE 0
    IN  [ok    |-> f = nq \/ (kind # "bad" /\ Len(t) = 4 * (f + 1)),
         bytes |-> [j \in 1..(3 * f + tail) |->
                      LET g   == (j - 1) \div 3
                          k   == (j - 1) % 3
                          val == Ord(4*g + 1) * 262144 + Ord(4*g + 2) * 4096
                                   + Ord(4*g + 3) * 64 + Ord(4*g + 4)
                      IN  IF k = 0 THEN (val \div 65536) % 256
                          ELSE IF k = 1 THEN (val \div 256) % 256
                          ELSE val % 256]]

(***************************************************************************)
(* strings.TrimSpace and strings.Split                                     *)
(***************************************************************************)

\* The UTF-8 encodings of the runes for which unicode.IsSpace is true.
SpaceRunes ==
    { <<9>>, <<10>>, <<11>>, <<12>>, <<13>>, <<32>>,
      <<194, 133>>, <<194, 160>>, <<225, 154, 128>>,
      <<226, 128, 168>>, <<226, 128, 169>>, <<226, 128, 175>>,
      <<226, 129, 159>>, <<227, 128, 128>> }
      \cup { <<226, 128, b>> : b \in 128..138 }

\* s[lo..hi] is the encoding of one space rune.
IsSpaceAt(s, lo, hi) == lo >= 1 /\ hi <= Len(s) /\ SubSeq(s, lo, hi) \in SpaceRunes

\* The index of the first byte at or after lo (up to hi) that does not
\* start a space rune; hi + 1 when there is none.
RECURSIVE TrimLeft(_, _, _)
TrimLeft(s, lo, hi) ==
    IF lo > hi THEN lo
    ELSE IF IsSpaceAt(s, lo, lo) THEN TrimLeft(s, lo + 1, hi)
    ELSE IF lo + 1 <= hi /\ IsSpaceAt(s, lo, lo + 1) THEN TrimLeft(s, lo + 2, hi)
    ELSE IF lo + 2 <= hi /\ IsSpaceAt(s, lo, lo + 2) THEN TrimLeft(s, lo + 3, hi)
    ELSE lo

\* The index of the last byte at or before hi (down to lo) that does not
\* end a space rune; lo - 1 when there is none.
RECURSIVE TrimRight(_, _, _)
TrimRight(s, lo, hi) ==
    IF hi < lo THEN hi
    ELSE IF IsSpaceAt(s, hi, hi) THEN TrimRight(s, lo, hi - 1)
    ELSE IF hi - 1 >= lo /\ IsSpaceAt(s, hi - 1, hi) THEN TrimRight(s, lo, hi - 2)
    ELSE IF hi - 2 >= lo /\ IsSpaceAt(s, hi - 2, hi) THEN TrimRight(s, lo, hi - 3)
    ELSE hi

\* strings.TrimSpace: s without its leading and trailing white space.
TrimSpace(s) ==
    LET lo == TrimLeft(s, 1, Len(s))
        hi == TrimRight(s, lo, Len(s))
    IN  SubSeq(s, lo, hi)

\* The positions of the newlines of s, in order.
NewlinePositions(s) ==
    SelectSeq([i \in 1..Len(s) |-> i], LAMBDA i : s[i] = NL)

\* strings.Split(s, "\n"): the segments between the newlines, one more
\* than there are newlines.
Split(s) ==
    LET p == NewlinePositions(s)
        k == Len(p)
    IN  [j \in 1..(k + 1) |->
            SubSeq(s, (IF j = 1 THEN 1 ELSE p[j - 1] + 1),
                      (IF j = k + 1 THEN Len(s) ELSE p[j] - 1))]

(***************************************************************************)
(* The format classifier and the two-line validator                        *)
(***************************************************************************)

\* The character set isI2PBase64Format and cleanI2PBase64 accept.
InCharset(r) ==
    \/ r >= 65 /\ r <= 90
    \/ r >= 97 /\ r <= 122
    \/ r >= 48 /\ r <= 57
    \/ r = 45 \/ r = 126 \/ r = PadChar

\* Mutant of isI2PBase64Format: newlines are accepted too, as they are by
\* cleanI2PBase64 and skipped by the decoder.
isI2PBase64FormatMultiLine(data) ==
    LET t == TrimSpace(data)
    IN  /\ t # <<>>
        /\ \A i \in 1..Len(t) : InCharset(t[i]) \/ t[i] = NL
        /\ fromI2PBase64(t).ok

\* isI2PBase64Format: trimmed, not empty, only accepted characters, and
\* decodable.  (A byte of a multi-byte or invalid rune is >= 128 and
\* so never accepted.)
isI2PBase64Format(data) ==
    LET t == TrimSpace(data)
    IN  /\ t # <<>>
        /\ \A i \in 1..Len(t) : InCharset(t[i])
        /\ fromI2PBase64(t).ok

\* IsCorrectFormat: exactly two lines after trimming, both I2P Base64.
IsCorrectFormat(data) ==
    LET lines == Split(TrimSpace(data))
    IN  IF Len(lines) # 2 THEN FALSE
        ELSE isI2PBase64Format(lines[1]) /\ isI2PBase64Format(lines[2])

\* cleanI2PBase64: trimmed, then every character that is neither accepted
\* nor a newline dropped.
KeepClean(r) == InCharset(r) \/ r = NL
cleanI2PBase64(data) == SelectSeq(TrimSpace(data), KeepClean)

(***************************************************************************)
(* Bounds of the model and the inputs it draws                             *)
(***************************************************************************)

\* The most lines that follow the first line of an input.
MaxExtraLines == 2

\* First-line lengths are taken from each length threshold, and the length
\* before it, down to Slack further below.
Slack == 0

\* The longest byte sequence the codec is exercised on by itself.
MaxRawLen == 4

\* The least number of bytes whose encoding has PubLen characters.
RawMin == ((PubLen \div 4) - 1) * 3 + 1

\* A line of n alphabet characters (the alphabet, repeated).
Line(n) == [i \in 1..n |-> EncodeChar((i - 1) % 64)]

\* n padding characters.
Pads(n) == [i \in 1..n |-> PadChar]

\* The first line ends with no, one or two padding characters.
PadCounts == {0, 1, 2}

\* The lengths of a short line: empty, or one quantum.
ShortLens == {0, 4}

\* The lengths of the first line: short; up to the least length whose
\* encoding reaches PubLen; up to PubLen; PubLen and one quantum.
FirstLens == ShortLens \cup ((RawMin - 1 - Slack)..RawMin)
                       \cup ((PubLen - 1 - Slack)..PubLen)
                       \cup {PubLen + 4}

\* What may surround the lines, as <<before, after>>: nothing; a space,
\* a newline or a '+' (a character outside the alphabet) before; a
\* newline or a no-break space (U+00A0) after.
Wraps == { <<<<>>, <<>>>>, <<<<32>>, <<>>>>, <<<<NL>>, <<>>>>, <<<<43>>, <<>>>>,
           <<<<>>, <<NL>>>>, <<<<>>, <<194, 160>>>> }

\* The lengths of the lines after the first: one to MaxExtraLines of
\* them, each short, and only the first of them may be blank.
ExtraShapes ==
    { shape \in UNION { [1..k -> ShortLens] : k \in 1..MaxExtraLines } :
        \A i \in 2..Len(shape) : shape[i] # 0 }

RECURSIVE ExtraLines(_, _)
ExtraLines(shape, i) ==
    IF i > Len(shape) THEN <<>>
    ELSE <<NL>> \o Line(shape[i]) \o ExtraLines(shape, i + 1)

\* The key files the model is run on: one line, padded or not, and
\* several lines.
KeyFiles ==
    { w[1] \o Line(n) \o Pads(p) \o w[2] :
        w \in Wraps, n \in FirstLens, p \in PadCounts }
    \cup { w[1] \o Line(n) \o ExtraLines(shape, 1) \o w[2] :
             w \in Wraps, n \in FirstLens, shape \in ExtraShapes }

\* The most bytes a file found at outputPath before the run holds.
MaxOldLen == 0

\* The files that may be at outputPath before the run.
OldFiles == { Line(n) : n \in 0..MaxOldLen }

\* A write that fails part-way is followed up to this many bytes from
\* either end of the payload.
MaxShortWrite == 1

\* The byte sequences the codec is run on by itself.
CodecBytes == {0, 65, 251, 255}
RawInputs == UNION { [1..k -> CodecBytes] : k \in 0..MaxRawLen }

(***************************************************************************)
(* State                                                                   *)
(***************************************************************************)

VARIABLES
    entry,            \* the entry point: "main", "check" (main -check), "FormatKeysFile", "codec"
    verbose,          \* main was given -v
    inArg,            \* main's -in: "none" (not given), "missing" (no file there), "file"
    outBefore,        \* the file at outputPath when the run starts
    usagePrinted,     \* main printed the usage text
    samePath,         \* inputPath = outputPath
    inFile,           \* the bytes of the file at inputPath when the run starts
    pc,               \* where the run is
    data,             \* the bytes os.ReadFile returned
    branch,           \* the path the conversion took
    formattedOutput,  \* the text built for the output file
    mkdirCalled,      \* os.MkdirAll was called on the output directory
    writeCalled,      \* os.WriteFile was called on the output file
    outExists,        \* a file exists at outputPath
    outFile,          \* its bytes
    err,              \* the error the function returned ("nil" for none)
    exitCode,         \* main's exit code (-1 while running)
    msg,              \* the last line main printed
    keyInfo,          \* the key details main -v printed
    encoded,          \* codec: the result of toI2PBase64
    decoded           \* codec: the result of fromI2PBase64

vars == <<entry, verbose, inArg, outBefore, usagePrinted, samePath, inFile, pc, data, branch, formattedOutput,
          mkdirCalled, writeCalled, outExists, outFile, err, exitCode, msg,
          keyInfo, encoded, decoded>>

ErrRead      == "failed to read key file"
ErrMkdir     == "failed to create output directory"
ErrWrite     == "failed to write output file"
ErrShort     == "key data too short to extract public key portion"
ErrShortFmt  == "key data too short to format correctly"

NoDecode == [ok |-> FALSE, bytes |-> <<>>]

Absent == [exists |-> FALSE, bytes |-> <<>>]

NoInfo == [printed |-> FALSE, publicKeyPreview |-> <<>>, fullKeyLength |-> 0,
           fullKeyPreview |-> <<>>]

\* main starts before it looks at its arguments, FormatKeysFile with a
\* path to read.  main -check never reads -v and never touches the output
\* path, and a main that stops at its arguments touches neither file.
Init ==
    /\ entry \in {"main", "check", "FormatKeysFile"}
    /\ verbose \in (IF entry = "main" THEN BOOLEAN ELSE {FALSE})
    /\ inArg \in (IF entry = "FormatKeysFile" THEN {"file"}
                  ELSE {"none", "missing", "file"})
    /\ inFile \in (IF inArg = "file" THEN KeyFiles ELSE {<<>>})
    /\ samePath \in (IF inArg = "file" /\ entry # "check" THEN BOOLEAN ELSE {FALSE})
    /\ outBefore \in (IF samePath THEN {[exists |-> TRUE, bytes |-> inFile]}
                      ELSE IF inArg = "file" /\ entry # "check"
                      THEN {Absent} \cup {[exists |-> TRUE, bytes |-> f] : f \in OldFiles}
                      ELSE {Absent})
    /\ usagePrinted = FALSE
    /\ pc = (IF entry = "FormatKeysFile" THEN "start" ELSE "args")
    /\ data = <<>>
    /\ branch = "none"
    /\ formattedOutput = <<>>
    /\ mkdirCalled = FALSE
    /\ writeCalled = FALSE
    /\ outExists = outBefore.exists
    /\ outFile = outBefore.bytes
    /\ err = "nil"
    /\ exitCode = -1
    /\ msg = ""
    /\ keyInfo = NoInfo
    /\ encoded = <<>>
    /\ decoded = NoDecode

(***************************************************************************)
(* ConvertKeyFile, FormatKeysFile and main, one action per step between    *)
(* two file-system calls                                                   *)
(***************************************************************************)

\* main up to the call of ConvertKeyFile or the -check mode: without -in
\* it prints an error and the usage text and exits; when os.Stat finds no
\* file at the path it prints an error and exits; otherwise -check goes
\* on to read the file, and a conversion prints the two paths.
MainStart ==
    /\ pc = "args"
    /\ IF inArg = "none"
       THEN /\ msg' = "Error: Input file (-in) is required"
            /\ usagePrinted' = TRUE
            /\ exitCode' = 1
            /\ pc' = "exited"
       ELSE IF inArg = "missing"
       THEN /\ msg' = "Error: Input file does not exist"
            /\ usagePrinted' = usagePrinted
            /\ exitCode' = 1
            /\ pc' = "exited"
       ELSE /\ msg' = (IF entry = "check" THEN msg ELSE "Output file")
            /\ usagePrinted' = usagePrinted
            /\ exitCode' = exitCode
            /\ pc' = "start"
    /\ UNCHANGED <<entry, verbose, inArg, outBefore, samePath, inFile, data, branch,
                   formattedOutput, mkdirCalled, writeCalled, outExists, outFile, err,
                   keyInfo, encoded, decoded>>

\* os.ReadFile(inputPath): the bytes of the file, or an error, which
\* ConvertKeyFile and FormatKeysFile return wrapped and main -check reports.
ReadFile ==
    /\ pc = "start"
    /\ entry \in {"main", "check", "FormatKeysFile"}
    /\ \E readOk \in BOOLEAN :
          IF readOk
          THEN /\ data' = inFile
               /\ pc' = (IF entry = "check" THEN "check" ELSE "decide")
               /\ err' = err
          ELSE /\ data' = data
               /\ pc' = "returned"
               /\ err' = ErrRead
    /\ UNCHANGED <<entry, verbose, inArg, outBefore, usagePrinted, keyInfo, samePath, inFile, branch, formattedOutput, mkdirCalled,
                   writeCalled, outExists, outFile, exitCode, msg, encoded, decoded>>

\* Mutant of TwoLines: the first line is not cut to PubLen characters.
TwoLinesWhole(completeKey) == completeKey \o <<NL>> \o completeKey

\* publicPart + "\n" + completeKey
TwoLines(completeKey) == SubSeq(completeKey, 1, PubLen) \o <<NL>> \o completeKey

\* Mutant of FirstLine: the line is trimmed before it is used.
FirstLineTrimmed(keyData) == TrimSpace(Split(keyData)[1])

\* lines := strings.Split(keyData, "\n"); completeKey := lines[0]
FirstLine(keyData) == Split(keyData)[1]

\* Mutant of FallbackOutcome: an encoding that is too short is written
\* as both lines instead of being refused.
FallbackOutcomeUnchecked(d) ==
    LET completeKey == toI2PBase64(d)
    IN  IF Len(completeKey) >= PubLen
        THEN [branch |-> "fallback", out |-> TwoLines(completeKey), err |-> "nil"]
        ELSE [branch |-> "fallback", out |-> completeKey \o <<NL>> \o completeKey,
              err |-> "nil"]

\* Mutant of FallbackOutcome: the bytes the text decodes to are encoded,
\* not the bytes of the file.
FallbackOutcomeDecoded(d) ==
    LET completeKey == toI2PBase64(fromI2PBase64(TrimSpace(d)).bytes)
    IN  IF Len(completeKey) >= PubLen
        THEN [branch |-> "fallback", out |-> TwoLines(completeKey), err |-> "nil"]
        ELSE [branch |-> "fallback", out |-> <<>>, err |-> ErrShort]

\* The encoded-text branch when the first line is too short: the whole
\* file is encoded, and must reach PubLen characters.
FallbackOutcome(d) ==
    LET completeKey == toI2PBase64(d)
    IN  IF Len(completeKey) >= PubLen
        THEN [branch |-> "fallback", out |-> TwoLines(completeKey), err |-> "nil"]
        ELSE [branch |-> "fallback", out |-> <<>>, err |-> ErrShort]

\* The binary branch: the whole file is encoded, and must reach PubLen
\* characters.
BinaryOutcome(d) ==
    LET completeKey == toI2PBase64(d)
    IN  IF Len(completeKey) >= PubLen
        THEN [branch |-> "binary", out |-> TwoLines(completeKey), err |-> "nil"]
        ELSE [branch |-> "binary", out |-> <<>>, err |-> ErrShort]

\* What ConvertKeyFile decides between reading and writing: the branch
\* taken, the text to write and the error returned.
ConvertOutcome(d) ==
    IF IsCorrectFormat(d)
    THEN [branch |-> "pass", out |-> <<>>, err |-> "nil"]
    ELSE IF isI2PBase64Format(d)
    THEN LET completeKey == FirstLine(d)
         IN  IF Len(completeKey) >= PubLen
             THEN [branch |-> "extract", out |-> TwoLines(completeKey), err |-> "nil"]
             ELSE FallbackOutcome(d)
    ELSE BinaryOutcome(d)

\* Mutant of ConvertDecide: the output directory is created before the
\* length of the key is checked.
ConvertDecideMkdirFirst ==
    /\ pc = "decide"
    /\ entry = "main"
    /\ mkdirCalled' = TRUE
    /\ \E o \in {ConvertOutcome(data)} :
           /\ branch' = o.branch
           /\ formattedOutput' = o.out
           /\ err' = o.err
           /\ pc' = (IF o.err = "nil" THEN "write" ELSE "returned")
    /\ UNCHANGED <<entry, verbose, inArg, outBefore, usagePrinted, keyInfo, samePath, inFile, data, writeCalled,
                   outExists, outFile, exitCode, msg, encoded, decoded>>

\* ConvertKeyFile from the format check to the return of the length error
\* or the call of os.MkdirAll.
ConvertDecide ==
    /\ pc = "decide"
    /\ entry = "main"
    /\ \E o \in {ConvertOutcome(data)} :
           /\ branch' = o.branch
           /\ formattedOutput' = o.out
           /\ err' = o.err
           /\ pc' = (IF o.err = "nil" THEN "mkdir" ELSE "returned")
    /\ UNCHANGED <<entry, verbose, inArg, outBefore, usagePrinted, keyInfo, samePath, inFile, data, mkdirCalled, writeCalled,
                   outExists, outFile, exitCode, msg, encoded, decoded>>

\* The first line of the cleaned input that is not blank ("" when none).
RECURSIVE FirstNonEmpty(_, _)
FirstNonEmpty(lines, i) ==
    IF i > Len(lines) THEN <<>>
    ELSE IF TrimSpace(lines[i]) # <<>> THEN lines[i]
    ELSE FirstNonEmpty(lines, i + 1)

\* What FormatKeysFile decides between reading and writing.
FormatOutcome(d) ==
    IF IsCorrectFormat(d)
    THEN [branch |-> "pass", out |-> <<>>, err |-> "nil"]
    ELSE LET cleanedInput == cleanI2PBase64(d)
             completeKey == FirstNonEmpty(Split(cleanedInput), 1)
         IN  IF Len(completeKey) < PubLen
             THEN [branch |-> "clean", out |-> <<>>, err |-> ErrShortFmt]
             ELSE [branch |-> "clean", out |-> TwoLines(completeKey), err |-> "nil"]

\* FormatKeysFile from the format check to a return or the next
\* file-system call: an input already in the format is written without
\* os.MkdirAll, and not at all when the two paths are the same.
FormatDecide ==
    /\ pc = "decide"
    /\ entry = "FormatKeysFile"
    /\ \E o \in {FormatOutcome(data)} :
           /\ branch' = o.branch
           /\ formattedOutput' = o.out
           /\ err' = o.err
           /\ pc' = (IF o.err # "nil" THEN "returned"
                     ELSE IF o.branch = "pass"
                          THEN (IF samePath THEN "returned" ELSE "write")
                          ELSE "mkdir")
    /\ UNCHANGED <<entry, verbose, inArg, outBefore, usagePrinted, keyInfo, samePath, inFile, data, mkdirCalled, writeCalled,
                   outExists, outFile, exitCode, msg, encoded, decoded>>

\* os.MkdirAll(filepath.Dir(outputPath), 0755), which may fail.
MkdirAll ==
    /\ pc = "mkdir"
    /\ mkdirCalled' = TRUE
    /\ \E mkdirOk \in BOOLEAN :
          IF mkdirOk
          THEN pc' = "write" /\ err' = err
          ELSE pc' = "returned" /\ err' = ErrMkdir
    /\ UNCHANGED <<entry, verbose, inArg, outBefore, usagePrinted, keyInfo, samePath, inFile, data, branch, formattedOutput,
                   writeCalled, outExists, outFile, exitCode, msg, encoded, decoded>>

\* Mutant of Payload: an input already in the format is written trimmed.
PayloadTrimmed == IF branch = "pass" THEN TrimSpace(data) ELSE formattedOutput

\* The bytes handed to os.WriteFile: the input itself when it was already
\* in the format, the text built otherwise.
Payload == IF branch = "pass" THEN data ELSE formattedOutput

\* The numbers of bytes a write that fails part-way can leave in the
\* file: any number from one to all but one; those within MaxShortWrite
\* of either end are followed.
PartialLens(p) ==
    { n \in 1..(Len(p) - 1) : n <= MaxShortWrite \/ n >= Len(p) - MaxShortWrite }

\* os.WriteFile(outputPath, …, 0600): the file holds the bytes; or the
\* call fails: before the file is opened (the file is as it was), after it
\* is opened and truncated (the file exists, empty), after part of the
\* bytes are written (the file holds a prefix of them), or when it is
\* closed (the file holds all of them).
WriteFile ==
    /\ pc = "write"
    /\ writeCalled' = TRUE
    /\ pc' = "returned"
    /\ \E outcome \in {"written", "notOpened", "truncated", "partial", "closeFailed"} :
          /\ err' = (IF outcome = "written" THEN "nil" ELSE ErrWrite)
          /\ outExists' = (IF outcome = "notOpened" THEN outExists ELSE TRUE)
          /\ CASE outcome \in {"written", "closeFailed"} -> outFile' = Payload
               [] outcome = "truncated" -> outFile' = <<>>
               [] outcome = "notOpened" -> outFile' = outFile
               [] outcome = "partial" ->
                    \E n \in PartialLens(Payload) : outFile' = SubSeq(Payload, 1, n)
    /\ UNCHANGED <<entry, verbose, inArg, outBefore, usagePrinted, keyInfo, samePath, inFile, data, branch, formattedOutput,
                   mkdirCalled, exitCode, msg, encoded, decoded>>

\* main -check: report whether the file is in the two-line format.
MainCheck ==
    /\ entry = "check"
    /\ \/ /\ pc = "check"
          /\ IF IsCorrectFormat(data)
             THEN exitCode' = 0 /\ msg' = "File IS in the correct two-line format"
             ELSE exitCode' = 1 /\ msg' = "File is NOT in the correct two-line format"
       \/ /\ pc = "returned"
          /\ exitCode' = 1 /\ msg' = "Error reading file"
    /\ pc' = "exited"
    /\ UNCHANGED <<entry, verbose, inArg, outBefore, usagePrinted, keyInfo, samePath, inFile, data, branch, formattedOutput, mkdirCalled,
                   writeCalled, outExists, outFile, err, encoded, decoded>>

\* truncateString(s, maxLen): s, or its first maxLen bytes and "...".
truncateString(s, maxLen) ==
    IF Len(s) <= maxLen THEN s ELSE SubSeq(s, 1, maxLen) \o <<46, 46, 46>>

\* What main -v prints about a result file: previews of its first two
\* lines and the length of the second, when it has two lines.
KeyInformation(resultData) ==
    LET lines == Split(resultData)
    IN  IF Len(lines) >= 2
        THEN [printed |-> TRUE,
              publicKeyPreview |-> truncateString(lines[1], 40),
              fullKeyLength |-> Len(lines[2]),
              fullKeyPreview |-> truncateString(lines[2], 40)]
        ELSE NoInfo

\* main after ConvertKeyFile returned: report its error, or read the
\* output file back, verify it with IsCorrectFormat and, with -v, print
\* the key details.
MainVerify ==
    /\ entry = "main"
    /\ pc = "returned"
    /\ pc' = "exited"
    /\ IF err # "nil"
       THEN exitCode' = 1 /\ msg' = "Error" /\ keyInfo' = keyInfo
       ELSE \E readOk \in BOOLEAN :
              IF ~readOk
              THEN exitCode' = 1 /\ msg' = "Error reading result file" /\ keyInfo' = keyInfo
              ELSE IF IsCorrectFormat(outFile)
              THEN /\ exitCode' = 0
                   /\ keyInfo' = (IF verbose THEN KeyInformation(outFile) ELSE keyInfo)
                   /\ msg' = (IF verbose /\ KeyInformation(outFile).printed
                              THEN "- Line 2: Base64-encoded full keypair (public + private)"
                              ELSE "Conversion successful - key is now in the correct format")
              ELSE /\ exitCode' = 1 /\ keyInfo' = keyInfo
                   /\ msg' = "Warning: Output file is not in the correct format"
    /\ UNCHANGED <<entry, verbose, inArg, outBefore, usagePrinted, samePath, inFile, data, branch,
                   formattedOutput, mkdirCalled, writeCalled, outExists, outFile, err,
                   encoded, decoded>>

Next ==
    \/ MainStart
    \/ ReadFile
    \/ ConvertDecide
    \/ FormatDecide
    \/ MkdirAll
    \/ WriteFile
    \/ MainCheck
    \/ MainVerify

Spec == Init /\ [][Next]_vars

(***************************************************************************)
(* The codec by itself: encode a byte sequence, then decode the text       *)
(***************************************************************************)

InitCodec ==
    /\ entry = "codec"
    /\ verbose = FALSE
    /\ inArg = "none"
    /\ outBefore = Absent
    /\ usagePrinted = FALSE
    /\ samePath = FALSE
    /\ inFile = <<>>
    /\ pc = "raw"
    /\ data \in RawInputs
    /\ branch = "none"
    /\ formattedOutput = <<>>
    /\ mkdirCalled = FALSE
    /\ writeCalled = FALSE
    /\ outExists = FALSE
    /\ outFile = <<>>
    /\ err = "nil"
    /\ exitCode = -1
    /\ msg = ""
    /\ keyInfo = NoInfo
    /\ encoded = <<>>
    /\ decoded = NoDecode

Encode ==
    /\ pc = "raw"
    /\ encoded' = toI2PBase64(data)
    /\ pc' = "encoded"
    /\ UNCHANGED <<entry, verbose, inArg, outBefore, usagePrinted, keyInfo, samePath, inFile, data, branch, formattedOutput, mkdirCalled,
                   writeCalled, outExists, outFile, err, exitCode, msg, decoded>>

Decode ==
    /\ pc = "encoded"
    /\ decoded' = fromI2PBase64(encoded)
    /\ pc' = "decoded"
    /\ UNCHANGED <<entry, verbose, inArg, outBefore, usagePrinted, keyInfo, samePath, inFile, data, branch, formattedOutput, mkdirCalled,
                   writeCalled, outExists, outFile, err, exitCode, msg, encoded>>

NextCodec == Encode \/ Decode

SpecCodec == InitCodec /\ [][NextCodec]_vars

(***************************************************************************)
(* Properties                                                              *)
(***************************************************************************)

\* ConvertKeyFile has returned to main.
ConvertReturned == entry = "main" /\ pc = "returned"

\* ConvertKeyFile has returned nil.
ConvertSucceeded == ConvertReturned /\ err = "nil"

\* ConvertKeyFile has just decided what to do with the file it read: it
\* is about to call os.MkdirAll, or has returned without calling it.
ConvertDecided ==
    /\ entry = "main"
    /\ branch # "none"
    /\ pc = "mkdir" \/ (pc = "returned" /\ ~mkdirCalled)

\* The text of s before its first newline (all of s when it has none).
UpToNewline(s) ==
    LET p == NewlinePositions(s)
    IN  IF p = <<>> THEN s ELSE SubSeq(s, 1, p[1] - 1)

\* The number of lines of s that are not blank.
NonBlankLines(s) ==
    LET lines == Split(s)
    IN  Cardinality({ i \in 1..Len(lines) : TrimSpace(lines[i]) # <<>> })

\* What the binary path writes for the bytes d: the first PubLen
\* characters of their encoding, a newline, their encoding.
EncodedTwoLines(d) ==
    LET enc == toI2PBase64(d)
    IN  SubSeq(enc, 1, PubLen) \o <<NL>> \o enc

\* C1: whenever ConvertKeyFile succeeds, the text in the output file is
\* accepted by IsCorrectFormat.  (Violated: a blob preceded by white space
\* is cut after 516 characters counted with the white space.)
C1_OutputIsCanonical ==
    ConvertSucceeded => outExists /\ IsCorrectFormat(outFile)

\* C2: an input that IsCorrectFormat accepts takes the pass-through branch
\* whatever else it looks like, never fails the length check, and when
\* ConvertKeyFile succeeds the output file holds the input byte for byte.
C2_PassThrough ==
    /\ (ConvertDecided /\ IsCorrectFormat(data))
         => branch = "pass" /\ err = "nil" /\ pc = "mkdir"
    /\ (entry = "main" /\ branch = "pass")
         => /\ err \in {"nil", ErrMkdir, ErrWrite}
            /\ formattedOutput = <<>>
    /\ (ConvertSucceeded /\ branch = "pass")
         => outExists /\ outFile = data /\ data = inFile

\* C2 witness: an input in the format, with white space around it and a
\* first line that is not PubLen long, was copied unchanged.
C2_PassedThrough ==
    /\ ConvertSucceeded
    /\ branch = "pass"
    /\ outFile = inFile
    /\ TrimSpace(inFile) # inFile
    /\ Len(UpToNewline(TrimSpace(inFile))) # PubLen

\* C3 as stated: an input that is not in the format and whose encoding is
\* shorter than 516 characters, said to be the same as having fewer than
\* 387 bytes, makes ConvertKeyFile fail with the key-too-short error.
\* (Violated: 385 and 386 bytes encode to 516 characters, and
\* ConvertKeyFile succeeds on them.)
C3_ShortBelow387 ==
    (ConvertReturned /\ branch # "none" /\ err \notin {ErrMkdir, ErrWrite}
        /\ ~IsCorrectFormat(data)
        /\ (Len(toI2PBase64(data)) < PubLen \/ Len(data) < 387))
    => err = ErrShort

\* C3 amended: an input that is not in the format and whose encoding is
\* shorter than 516 characters, that is an input of fewer than 385 bytes,
\* makes ConvertKeyFile fail with the key-too-short error, in the
\* encoded-text branch and in the binary branch.
C3_FailureBoundary ==
    (ConvertDecided /\ ~IsCorrectFormat(data))
    => /\ (Len(toI2PBase64(data)) < PubLen) <=> (Len(data) < RawMin)
       /\ Len(data) < RawMin
            => /\ pc = "returned"
               /\ err = ErrShort
               /\ branch \in {"fallback", "binary"}

\* C3 witness: encoded text of 384 characters, the longest input that is
\* too short, was rejected.
C3_ShortKeyRejected ==
    /\ ConvertReturned
    /\ branch = "fallback"
    /\ err = ErrShort
    /\ Len(data) = RawMin - 1

\* C4: when ConvertKeyFile or FormatKeysFile returns the key-too-short
\* error, os.MkdirAll and os.WriteFile have not been called and the output
\* file is as it was; and when either has been called, the key has passed
\* the length check (or the input was already in the format).
C4_NoPartialOutput ==
    /\ err \in {ErrShort, ErrShortFmt}
         => /\ ~mkdirCalled /\ ~writeCalled
            /\ outExists = outBefore.exists
            /\ outFile = outBefore.bytes
    /\ (mkdirCalled \/ writeCalled)
         => branch = "pass" \/ Len(formattedOutput) > 2 * PubLen

\* C4 witness: FormatKeysFile returned the key-too-short error for a file
\* that holds more than one line.
C4_ShortKeyNoWrite ==
    /\ entry = "FormatKeysFile"
    /\ pc = "returned"
    /\ err = ErrShortFmt
    /\ NonBlankLines(data) >= 2

\* C5: when ConvertKeyFile succeeds and has not passed the input through,
\* the output is two lines, the first is exactly 516 characters long and
\* is the first 516 characters of the second.
C5_LengthInvariant ==
    (ConvertSucceeded /\ branch # "pass")
    => LET lines == Split(outFile)
       IN  /\ Len(lines) = 2
           /\ Len(lines[1]) = PubLen
           /\ Len(lines[2]) >= PubLen
           /\ lines[1] = SubSeq(lines[2], 1, PubLen)

\* C5 witness: a first line was derived from a longer encoded line.
C5_DerivedLine ==
    /\ ConvertSucceeded
    /\ branch = "extract"
    /\ Len(Split(outFile)[2]) > PubLen

\* C6: in every output of a successful ConvertKeyFile the first line is
\* no longer than the second.  (Violated: an input in the format whose
\* first line is the longer one is copied as it is.)
C6_LengthOrdering ==
    ConvertSucceeded
    => LET lines == Split(TrimSpace(outFile))
       IN  Len(lines) = 2 /\ Len(lines[1]) <= Len(lines[2])

\* C7: decoding the encoding of a byte sequence succeeds and gives the
\* byte sequence back.
C7_RoundTrip ==
    (entry = "codec" /\ pc = "decoded") => decoded.ok /\ decoded.bytes = data

\* C7 witness: a sequence of more than three bytes whose last group has
\* one byte, with bytes that encode to '-' and '~', was encoded and decoded.
C7_RoundTripped ==
    /\ entry = "codec" /\ pc = "decoded"
    /\ Len(data) > 3 /\ Len(data) % 3 = 1
    /\ \E i \in 1..Len(encoded) : encoded[i] = 45
    /\ \E i \in 1..Len(encoded) : encoded[i] = 126
    /\ encoded[Len(encoded)] = PadChar

\* C8: for an input that is not in the format, that as a whole passes
\* isI2PBase64Format and whose text before the first newline has at least
\* 516 characters, ConvertKeyFile writes the first 516 characters of that
\* text, a newline, and that text, as it stands in the input.
C8_Extraction ==
    /\ (ConvertDecided /\ Len(UpToNewline(data)) >= PubLen
          /\ ~IsCorrectFormat(data) /\ isI2PBase64Format(data))
         => /\ branch = "extract"
            /\ pc = "mkdir" /\ err = "nil"
            /\ formattedOutput =
                 SubSeq(UpToNewline(data), 1, PubLen) \o <<NL>> \o UpToNewline(data)
    /\ (ConvertSucceeded /\ branch = "extract")
         => outFile =
              SubSeq(UpToNewline(data), 1, PubLen) \o <<NL>> \o UpToNewline(data)

\* C8 witness: a line longer than 516 characters that starts with a space
\* was written with its space.
C8_Extracted ==
    /\ ConvertSucceeded
    /\ branch = "extract"
    /\ data[1] = 32
    /\ outFile[1] = 32
    /\ outFile[PubLen + 2] = 32

\* C9: for an input that is not in the format, that passes
\* isI2PBase64Format and whose text before the first newline has fewer
\* than 516 characters, ConvertKeyFile does what the binary branch does
\* with the bytes of the file: it encodes them and writes the two lines
\* when the encoding has at least 516 characters, and fails with the
\* key-too-short error otherwise.
C9_ShortFallback ==
    /\ (ConvertDecided /\ Len(UpToNewline(data)) < PubLen
          /\ ~IsCorrectFormat(data) /\ isI2PBase64Format(data))
         => /\ branch = "fallback"
            /\ formattedOutput = BinaryOutcome(data).out
            /\ err = BinaryOutcome(data).err
            /\ IF Len(toI2PBase64(data)) >= PubLen
               THEN /\ pc = "mkdir" /\ err = "nil"
                    /\ formattedOutput = EncodedTwoLines(data)
               ELSE pc = "returned" /\ err = ErrShort
    /\ (ConvertSucceeded /\ branch = "fallback")
         => outFile = EncodedTwoLines(data)

\* C9 witness: encoded text with a short first line and at least 385
\* bytes was written as the encoding of its own bytes, which is not the
\* encoding of the bytes it decodes to.
C9_FellBack ==
    /\ ConvertSucceeded
    /\ branch = "fallback"
    /\ outFile = EncodedTwoLines(data)
    /\ toI2PBase64(data) # toI2PBase64(fromI2PBase64(TrimSpace(data)).bytes)

\* C10: in the encoded-text branch the trimmed content holds no newline;
\* so an input that is not in the format and has two or more lines that
\* are not blank takes the binary branch, which encodes its bytes.
C10_MultiLineIsBinary ==
    /\ (ConvertDecided /\ branch \in {"extract", "fallback"})
         => NewlinePositions(TrimSpace(data)) = <<>>
    /\ (ConvertDecided /\ NonBlankLines(data) >= 2 /\ ~IsCorrectFormat(data))
         => /\ branch = "binary"
            /\ IF Len(toI2PBase64(data)) >= PubLen
               THEN /\ pc = "mkdir" /\ err = "nil"
                    /\ formattedOutput = EncodedTwoLines(data)
               ELSE pc = "returned" /\ err = ErrShort
    /\ (ConvertSucceeded /\ branch = "binary")
         => outFile = EncodedTwoLines(data)

\* C10 witness: three encoded lines were written as the encoding of the
\* whole text.
C10_ThreeLinesEncoded ==
    /\ ConvertSucceeded
    /\ branch = "binary"
    /\ NonBlankLines(data) = 3
    /\ outFile = EncodedTwoLines(data)

====
